---- MODULE Spec2Model ----
(***************************************************************************)
(* View-state coordination layer of the "A i' centrale" site: the mobile   *)
(* menu (mobile-menu.js), the gallery lightbox (gallery.js), the reveal    *)
(* watcher (scroll-animations.js), the scroll spy (navigation.js), the     *)
(* debounce helper (helpers.js) and the page glue of main.js.              *)
(*                                                                         *)
(* Each handler of the source is one action; a handler's body is a pure    *)
(* operator from a record of the state it touches to the record after it,  *)
(* so that handlers which run several functions in sequence compose them.  *)
(* The state after the DOMContentLoaded handler of main.js is Init.        *)
(* The markup is not part of the repository: where the document holds the  *)
(* burger and the panel, they are taken to carry aria-expanded = "false"   *)
(* and aria-hidden = "true" and no menu class.                             *)
(* mobile-menu.js binds isMenuOpen twice (the flag and an exported         *)
(* function); the model follows the flag the handlers read and write.      *)
(***************************************************************************)
EXTENDS Integers, Sequences, FiniteSets

\* ---------------------------------------------------------------- bounds
\* Largest number of '.gallery__item' elements in the document.
MaxImages == 3
\* Largest number of focus timers (setTimeout) pending at once, per module.
MaxPendingTimers == 2
\* Number of elements tagged for entrance animation.
NumAnimated == 2

\* Number of 'section[id]' elements in the document.
NumSections == 2
\* Largest number of '.nav__link' elements in the document.
MaxLinks == 3
\* Largest number of entries one scroll-spy callback is handed.
MaxEntries == 2

\* Largest number of calls made to one debounced function.
MaxCalls == 3

\* ------------------------------------------------------ program constants
\* Desktop breakpoint of both resize handlers.
Breakpoint == 1024
\* swipeThreshold of handleSwipe.
SwipeThreshold == 50

\* wait of the debounced scroll listener of initScrollToTop.
DebounceWait == 100

\* ------------------------------------------------------------ input sets
\* window.innerWidth values a resize can leave: below, at and above the breakpoint.
Widths == {Breakpoint - 1, Breakpoint, Breakpoint + 1}
\* e.key values delivered to the document's keydown listeners.
Keys == {"Escape", "ArrowLeft", "ArrowRight", "Enter"}
\* e.key values delivered to a focused gallery item.
ItemKeys == {"Enter", " ", "Escape", "ArrowRight"}
\* What an anchor's href is to initSmoothScroll: "#" alone, a fragment with no
\* matching element, a fragment whose element exists, or not a '#' href at all.
HrefKinds == {"hash", "dangling", "target", "external"}
\* screenX values of a touch.
TouchXs == {0, SwipeThreshold, SwipeThreshold + 1}
\* Arguments openLightbox is called with: valid indices and both kinds of invalid.
IndexArgs == (0 - 1) .. MaxImages
\* The elements tagged for entrance animation.
Animated == 1 .. NumAnimated

\* Time passes in steps of half the debounce wait.
TickMs == DebounceWait \div 2
\* The scroll events a debounced listener is called with.
ScrollEvents == {"scroll-a", "scroll-b"}

\* Strings that navigation.js takes apart or builds are sequences, so that
\* '#' + id and hash.substring(1) are what they are in the source.
\* The ids a document's sections carry, first come first used.
SectionNames == <<"hero", "about", "menu", "gallery">>
\* The id of each 'section[id]', in document order.
SectionIds == [i \in 1 .. NumSections |-> <<SectionNames[i]>>]
\* The id of an element that is not a section.
TopId == <<"top">>
\* The template literal `#${sectionId}`.
Hash(sectionId) == <<"#">> \o sectionId
\* href of a '.nav__link': a section's fragment or another element's.
Hrefs == {Hash(SectionIds[i]) : i \in 1 .. NumSections} \cup {Hash(TopId)}
\* window.location.hash: empty, or '#' and the fragment.
Fragments == {<<>>} \cup Hrefs
\* The '.nav__link' elements a document can hold, as the sequence of their
\* hrefs; the desktop navigation and the mobile panel may link the same section.
Documents == UNION {[1 .. k -> Hrefs] : k \in 0 .. MaxLinks}
\* The entries of one IntersectionObserver callback of the scroll spy.
Entries == [target : 1 .. NumSections, isIntersecting : BOOLEAN]
EntryBatches == UNION {[1 .. k -> Entries] : k \in 1 .. MaxEntries}

\* The value of a JS number that is NaN (x % 0), kept apart from every index.
NaN == 0 - 1000
\* img.src before the first updateLightboxImage: no descriptor is shown.
NoImage == 0 - 1

VARIABLES
    \* mobile-menu.js
    isMenuOpen,          \* module-level flag
    burgerActive,        \* burger has 'header__burger--active'
    navOpen,             \* panel has 'nav--open'
    overlayVisible,      \* overlay has 'header__overlay--visible'
    bodyMenuOpen,        \* body has 'menu-open'
    ariaExpanded,        \* burger's aria-expanded
    ariaHidden,          \* panel's aria-hidden
    menuFocusTimers,     \* pending 300 ms timers of openMenu
    menuResizeTimer,     \* the resize listener's 250 ms timer is pending
    \* main.js
    mainResizeTimer,     \* main.js's 250 ms resize timer is pending
    innerWidth,          \* window.innerWidth
    activeElement,       \* which control holds the focus
    \* gallery.js
    currentImageIndex,   \* module-level index (an integer, or NaN)
    galleryImages,       \* module-level list of descriptors
    lightbox,            \* module-level lightbox is non-null
    lightboxActive,      \* lightbox has 'gallery__lightbox--active'
    bodyNoScroll,        \* body has 'no-scroll'
    shownImage,          \* descriptor whose src/alt/caption the modal holds
    lightboxFocusTimers, \* pending 100 ms timers of openLightbox
    swipeTimer,          \* the module-level 100 ms timer is pending
    swipeInstalled,      \* touchstart/touchend listeners are on the lightbox
    touchStartX,         \* closure variable of initSwipeSupport
    \* scroll-animations.js
    observer,            \* module-level observer (= window.scrollAnimationObserver) is non-null
    watched,             \* elements the current observer observes
    staleWatched,        \* elements still observed by superseded observers
    preloaded,           \* indices of the descriptors an Image was created for
    connected,           \* the current observer was not disconnected since its construction
    staleConnected,      \* some superseded observer was never disconnected
    inFlight,            \* elements a disconnected observer may still hold entries for
    visible,             \* elements carrying 'is-visible'
    reducedMotion,       \* (prefers-reduced-motion: reduce) matches
    \* navigation.js
    navLinks,            \* href of each '.nav__link', in document order
    navActive,           \* the links carrying 'nav__link--active'
    locationHash,        \* window.location.hash
    lastSectionId,       \* history: the argument of the latest updateActiveLink
    \* helpers.js, one debounced function
    debounceTimers,      \* pending setTimeout(later, wait): id, ms remaining, args
    timeout,             \* closure variable: id of the latest setTimeout (0: undefined)
    debounceCalls,       \* history: args of each call of the debounced function
    funcInvocations,     \* history: each func(...args) with what was true then
    sinceLastCall,       \* history: ms since the latest call, up to the wait
    \* what the init functions found and registered
    menuMarkup,          \* the document holds '.header__burger' and '.header__nav--mobile'
    overlayAppended,     \* createOverlay appended a '.header__overlay' to the body
    spyWatcher,          \* initScrollSpy created its IntersectionObserver
    \* history
    lastOp,              \* the handler that ran last, with its argument
    hist                 \* index after each of the calls open, next/prev, ... made in a row

menuVars == <<isMenuOpen, burgerActive, navOpen, overlayVisible, bodyMenuOpen,
              ariaExpanded, ariaHidden, menuFocusTimers>>
timerVars == <<menuResizeTimer, mainResizeTimer, innerWidth>>
galleryVars == <<currentImageIndex, lightboxActive, bodyNoScroll, shownImage,
                 lightboxFocusTimers, preloaded>>
galleryInitVars == <<galleryImages, lightbox>>
swipeVars == <<swipeTimer, swipeInstalled, touchStartX>>
revealVars == <<observer, watched, staleWatched, connected, staleConnected,
                inFlight, visible>>
navVars == <<navLinks, navActive, locationHash, lastSectionId>>
debounceVars == <<debounceTimers, timeout, debounceCalls, funcInvocations, sinceLastCall>>
markupVars == <<menuMarkup, overlayAppended, spyWatcher>>
vars == <<menuVars, timerVars, activeElement, galleryVars, galleryInitVars, swipeVars,
          revealVars, reducedMotion, navVars, debounceVars, markupVars, lastOp, hist>>

\* lastOp: the handler's name, its string or number argument, and whether the
\* handler left the menu's or the lightbox's state other than it found it.
OpS(name, str, changed) == [op |-> name, s |-> str, n |-> 0, changed |-> changed]
OpN(name, num, changed) == [op |-> name, s |-> "", n |-> num, changed |-> changed]
Op(name, changed) == OpN(name, 0, changed)

\* ======================================================== mobile-menu.js
\* The state openMenu/closeMenu read and write, as one record.
MenuState ==
    [isMenuOpen |-> isMenuOpen, burgerActive |-> burgerActive, navOpen |-> navOpen,
     overlayVisible |-> overlayVisible, bodyMenuOpen |-> bodyMenuOpen,
     ariaExpanded |-> ariaExpanded, ariaHidden |-> ariaHidden,
     focusTimers |-> menuFocusTimers]

SetMenu(m) ==
    /\ isMenuOpen' = m.isMenuOpen
    /\ burgerActive' = m.burgerActive
    /\ navOpen' = m.navOpen
    /\ overlayVisible' = m.overlayVisible
    /\ bodyMenuOpen' = m.bodyMenuOpen
    /\ ariaExpanded' = m.ariaExpanded
    /\ ariaHidden' = m.ariaHidden
    /\ menuFocusTimers' = m.focusTimers

\* Mutant of openMenu: the body's scroll-lock class is not added.
openMenu_NoScrollLock(m) ==
    [isMenuOpen |-> TRUE, burgerActive |-> TRUE, navOpen |-> TRUE,
     overlayVisible |-> TRUE, bodyMenuOpen |-> m.bodyMenuOpen,
     ariaExpanded |-> "true", ariaHidden |-> "false",
     focusTimers |-> m.focusTimers + 1]

\* openMenu: sets the flag, the four classes and both attributes, and starts a
\* 300 ms focus timer (the panel has a first link). There is no guard on the flag.
openMenu(m) ==
    [isMenuOpen |-> TRUE, burgerActive |-> TRUE, navOpen |-> TRUE,
     overlayVisible |-> TRUE, bodyMenuOpen |-> TRUE,
     ariaExpanded |-> "true", ariaHidden |-> "false",
     focusTimers |-> m.focusTimers + 1]

\* Mutant of closeMenu: the overlay keeps 'header__overlay--visible'.
closeMenu_KeepsOverlay(m) ==
    [isMenuOpen |-> FALSE, burgerActive |-> FALSE, navOpen |-> FALSE,
     overlayVisible |-> m.overlayVisible, bodyMenuOpen |-> FALSE,
     ariaExpanded |-> "false", ariaHidden |-> "true",
     focusTimers |-> m.focusTimers]

\* closeMenu: clears the flag, the four classes and resets both attributes.
closeMenu(m) ==
    [isMenuOpen |-> FALSE, burgerActive |-> FALSE, navOpen |-> FALSE,
     overlayVisible |-> FALSE, bodyMenuOpen |-> FALSE,
     ariaExpanded |-> "false", ariaHidden |-> "true",
     focusTimers |-> m.focusTimers]

toggleMenu(m) == IF m.isMenuOpen THEN closeMenu(m) ELSE openMenu(m)

\* Mutant of menuKeydown: Escape toggles the menu, open or not.
menuKeydown_Toggles(m, key) == IF key = "Escape" THEN toggleMenu(m) ELSE m

\* The document keydown listener of initMobileMenu.
menuKeydown(m, key) == IF key = "Escape" /\ m.isMenuOpen THEN closeMenu(m) ELSE m

\* Mutant of menuResizeCallback: the breakpoint itself does not count as desktop.
menuResizeCallback_Strict(m, width) ==
    IF width > Breakpoint /\ m.isMenuOpen THEN closeMenu(m) ELSE m

\* The 250 ms callback of initMobileMenu's resize listener.
menuResizeCallback(m, width) ==
    IF width >= Breakpoint /\ m.isMenuOpen THEN closeMenu(m) ELSE m

\* ================================================================ main.js
\* The "close mobile menu if open" block shared by initSmoothScroll's click
\* handler and the resize callback: three classes are removed when the panel has
\* 'nav--open'; the flag, the overlay and the attributes are not touched.
stripMenuClasses(m) ==
    IF m.navOpen
    THEN [m EXCEPT !.bodyMenuOpen = FALSE, !.navOpen = FALSE, !.burgerActive = FALSE]
    ELSE m

\* The click handler initSmoothScroll puts on every a[href^="#"].
smoothScrollClick(m, href) == IF href = "target" THEN stripMenuClasses(m) ELSE m

\* The menu part of main.js's 250 ms resize callback.
mainResizeMenu(m, width) == IF width >= Breakpoint THEN stripMenuClasses(m) ELSE m

\* createOverlay: a div is appended unless the document holds the overlay.
createOverlay(inMarkup) == ~inMarkup

\* ================================================= scroll-animations.js
\* The state of the reveal watcher, as one record.
RevealState ==
    [observer |-> observer, watched |-> watched, stale |-> staleWatched,
     connected |-> connected, staleConnected |-> staleConnected,
     inFlight |-> inFlight, visible |-> visible]

SetReveal(r) ==
    /\ observer' = r.observer
    /\ watched' = r.watched
    /\ staleWatched' = r.stale
    /\ connected' = r.connected
    /\ staleConnected' = r.staleConnected
    /\ inFlight' = r.inFlight
    /\ visible' = r.visible

\* The callback createObserver gives every watcher, run on the targets S whose
\* entry has isIntersecting: classList.add, then unobserve on the module-level
\* observer (the current watcher, whichever instance delivers the entries).
\* Mutant of observerCallback: classList.toggle in place of classList.add.
observerCallback_Toggles(r, S) ==
    [r EXCEPT !.visible = (r.visible \ S) \cup (S \ r.visible),
              !.watched = r.watched \ S]

observerCallback(r, S) ==
    [r EXCEPT !.visible = r.visible \cup S, !.watched = r.watched \ S]

\* createObserver: a new IntersectionObserver replaces the module-level one and
\* window.scrollAnimationObserver; the replaced instance keeps whatever it observes.
createObserver(r) ==
    [r EXCEPT !.observer = TRUE, !.watched = {}, !.stale = r.stale \cup r.watched,
              !.connected = TRUE,
              !.staleConnected = r.staleConnected \/ r.connected]

\* observeElements: observer.observe(element) for every tagged element.
observeElements(r) == IF r.observer THEN [r EXCEPT !.watched = Animated] ELSE r

\* makeAllVisible: 'is-visible' on every tagged element.
makeAllVisible(r) == [r EXCEPT !.visible = Animated]

\* Mutant of initScrollAnimations: the reduced-motion branch also builds a watcher.
initScrollAnimations_WatchesAnyway(r, reduced) ==
    IF reduced THEN makeAllVisible(observeElements(createObserver(r)))
    ELSE observeElements(createObserver(r))

initScrollAnimations(r, reduced) ==
    IF reduced THEN makeAllVisible(r) ELSE observeElements(createObserver(r))

\* observer.disconnect(): nothing is observed any more; entries the observer
\* had queued for its targets are not taken back.
disconnect(r) ==
    [r EXCEPT !.watched = {}, !.inFlight = r.inFlight \cup r.watched,
              !.connected = FALSE]

\* Mutant of disconnectObserver: the elements still waiting are revealed.
disconnectObserver_RevealsWatched(r) ==
    IF r.observer
    THEN [disconnect(r) EXCEPT !.visible = r.visible \cup r.watched]
    ELSE r

\* disconnectObserver: observer.disconnect() when there is an observer.
disconnectObserver(r) == IF r.observer THEN disconnect(r) ELSE r

\* reconnectObserver: disconnect, createObserver, observeElements.
reconnectObserver(r) == observeElements(createObserver(disconnectObserver(r)))

\* Mutant of mediaChange: switching to 'reduce' reveals without disconnecting.
mediaChange_KeepsWatching(r, matches) ==
    IF matches THEN makeAllVisible(r) ELSE initScrollAnimations(r, matches)

\* The 'change' listener of the prefers-reduced-motion media query; the
\* initScrollAnimations it calls reads the query again, which now has e.matches.
mediaChange(r, matches) ==
    IF matches THEN makeAllVisible(disconnectObserver(r))
    ELSE initScrollAnimations(r, matches)

\* triggerAnimation(element) and resetAnimation(element), the exported helpers.
triggerAnimation(r, element) == [r EXCEPT !.visible = r.visible \cup {element}]

resetAnimation(r, element) == [r EXCEPT !.visible = r.visible \ {element}]

\* Mutant of mainResizeReveal: the re-init does not disconnect first.
mainResizeReveal_NoDisconnect(r, reduced) ==
    IF r.observer THEN initScrollAnimations(r, reduced) ELSE r

\* The reveal part of main.js's 250 ms resize callback:
\* window.scrollAnimationObserver.disconnect(); initScrollAnimations().
mainResizeReveal(r, reduced) ==
    IF r.observer THEN initScrollAnimations(disconnect(r), reduced) ELSE r

\* ========================================================== navigation.js
\* The active links and the latest updateActiveLink argument, as one record.
NavState == [active |-> navActive, lastId |-> lastSectionId]

SetNav(v) ==
    /\ navActive' = v.active
    /\ lastSectionId' = v.lastId
    /\ navLinks' = navLinks

\* Mutant of updateActiveLink: the class is added, never removed.
updateActiveLink_NeverRemoves(v, sectionId) ==
    [active |-> v.active \cup {l \in DOMAIN navLinks : navLinks[l] = Hash(sectionId)},
     lastId |-> sectionId]

\* updateActiveLink: every '.nav__link' gets the class when its href is
\* '#' + sectionId and loses it otherwise.
updateActiveLink(v, sectionId) ==
    [active |-> {l \in DOMAIN navLinks :
                    IF navLinks[l] = Hash(sectionId) THEN TRUE ELSE FALSE},
     lastId |-> sectionId]

\* The scroll spy's callback: entries.forEach, updateActiveLink for each
\* entry that intersects.
RECURSIVE scrollSpyCallback(_, _)
scrollSpyCallback(v, entries) ==
    IF entries = <<>> THEN v
    ELSE LET entry == Head(entries)
             v1 == IF entry.isIntersecting
                   THEN updateActiveLink(v, SectionIds[entry.target])
                   ELSE v
         IN  scrollSpyCallback(v1, Tail(entries))

\* Mutant of initActiveLinks: the hash is passed on with its '#'.
initActiveLinks_KeepsHashSign(v, hash) ==
    IF hash # <<>> THEN updateActiveLink(v, hash)
    ELSE IF NumSections > 0 THEN updateActiveLink(v, SectionIds[1])
    ELSE v

\* initActiveLinks: the fragment of the URL, or else the first section.
initActiveLinks(v, hash) ==
    IF hash # <<>> THEN updateActiveLink(v, Tail(hash))
    ELSE IF NumSections > 0 THEN updateActiveLink(v, SectionIds[1])
    ELSE v

\* initScrollSpy: the watcher is created unless there is no section or no link.
initScrollSpy(links) == ~(NumSections = 0 \/ Len(links) = 0)

\* initNavigation: initScrollSpy only installs the watcher; initActiveLinks.
initNavigation(v, hash) == initActiveLinks(v, hash)

\* Mutant of hashchange: the hash is passed on with its '#'.
hashchange_KeepsHashSign(v, hash) ==
    IF hash # <<>> THEN updateActiveLink(v, hash) ELSE v

\* The hashchange listener.
hashchange(v, hash) ==
    IF hash # <<>> THEN updateActiveLink(v, Tail(hash)) ELSE v

\* ============================================================= helpers.js
\* The closure of one debounce(func, wait) and its history, as one record.
DebounceState ==
    [timers |-> debounceTimers, timeout |-> timeout, calls |-> debounceCalls,
     invoked |-> funcInvocations, since |-> sinceLastCall]

SetDebounce(d) ==
    /\ debounceTimers' = d.timers
    /\ timeout' = d.timeout
    /\ debounceCalls' = d.calls
    /\ funcInvocations' = d.invoked
    /\ sinceLastCall' = d.since

\* clearTimeout(timeout)
clearTimeout(timers, id) == {t \in timers : t.id # id}

\* Mutant of executedFunction: the pending timer is not cleared.
executedFunction_NoClear(d, args) ==
    LET id == Len(d.calls) + 1
    IN  [d EXCEPT !.timers = d.timers \cup
                      {[id |-> id, remaining |-> DebounceWait, args |-> args]},
                  !.timeout = id,
                  !.calls = Append(d.calls, args),
                  !.since = 0]

\* executedFunction(...args), the debounced function: clearTimeout(timeout);
\* timeout = setTimeout(later, wait). The timer's id is the call's number.
executedFunction(d, args) ==
    LET id == Len(d.calls) + 1
    IN  [d EXCEPT !.timers = clearTimeout(d.timers, d.timeout) \cup
                      {[id |-> id, remaining |-> DebounceWait, args |-> args]},
                  !.timeout = id,
                  !.calls = Append(d.calls, args),
                  !.since = 0]

\* later, run by timer t: clearTimeout(timeout); func(...args).
later(d, t) ==
    [d EXCEPT !.timers = clearTimeout(d.timers \ {t}, d.timeout),
              !.invoked = Append(d.invoked,
                                 [call |-> t.id, args |-> t.args,
                                  since |-> d.since, calls |-> Len(d.calls)])]

\* ms milliseconds pass.
elapse(d, ms) ==
    [d EXCEPT !.timers = {[t EXCEPT !.remaining = IF t.remaining > ms
                                                  THEN t.remaining - ms ELSE 0]
                          : t \in d.timers},
              !.since = IF d.since + ms < DebounceWait THEN d.since + ms
                        ELSE DebounceWait]

\* ============================================================= gallery.js
\* JS arithmetic on numbers that may be NaN.
JsAdd(a, b) == IF a = NaN \/ b = NaN THEN NaN ELSE a + b

\* JS a % b: NaN for b = 0, else the remainder with the sign of the dividend.
JsRem(a, b) ==
    IF a = NaN \/ b = NaN \/ b = 0 THEN NaN
    ELSE IF a >= 0 THEN a % b ELSE 0 - ((0 - a) % b)

\* galleryImages[index] is defined (truthy): index is an own index of the array.
HasImage(index) == index \in 0 .. (Len(galleryImages) - 1)

\* The state the lightbox functions read and write, as one record.
GalleryState ==
    [currentImageIndex |-> currentImageIndex, lightboxActive |-> lightboxActive,
     bodyNoScroll |-> bodyNoScroll, shownImage |-> shownImage,
     focusTimers |-> lightboxFocusTimers, preloaded |-> preloaded]

SetGallery(g) ==
    /\ currentImageIndex' = g.currentImageIndex
    /\ lightboxActive' = g.lightboxActive
    /\ bodyNoScroll' = g.bodyNoScroll
    /\ shownImage' = g.shownImage
    /\ lightboxFocusTimers' = g.focusTimers
    /\ preloaded' = g.preloaded

\* preloadAdjacentImages: an Image is created for the descriptors before and
\* after the current one. No function of gallery.js calls it and it is not
\* exported, so no action applies it.
preloadAdjacentImages(g) ==
    LET n == Len(galleryImages)
        prevIndex == (g.currentImageIndex - 1 + n) % n
        nextIndex == (g.currentImageIndex + 1) % n
    IN  [g EXCEPT !.preloaded = g.preloaded \cup {prevIndex, nextIndex}]

\* updateLightboxImage: the modal's img.src/alt and caption become those of
\* galleryImages[currentImageIndex] when that descriptor exists.
updateLightboxImage(g) ==
    IF ~lightbox THEN g
    ELSE IF HasImage(g.currentImageIndex)
         THEN [g EXCEPT !.shownImage = galleryImages[g.currentImageIndex + 1]]
         ELSE g

\* Mutant of openLightbox: the index is not checked against the list.
openLightbox_NoIndexCheck(g, index) ==
    IF ~lightbox THEN g
    ELSE [updateLightboxImage([g EXCEPT !.currentImageIndex = index])
             EXCEPT !.lightboxActive = TRUE, !.bodyNoScroll = TRUE,
                    !.focusTimers = @ + 1]

\* Mutant of openLightbox: index = length passes the guard.
openLightbox_OffByOne(g, index) ==
    IF ~lightbox \/ index \notin 0 .. Len(galleryImages) THEN g
    ELSE [updateLightboxImage([g EXCEPT !.currentImageIndex = index])
             EXCEPT !.lightboxActive = TRUE, !.bodyNoScroll = TRUE,
                    !.focusTimers = @ + 1]

openLightbox(g, index) ==
    IF ~lightbox \/ ~HasImage(index) THEN g
    ELSE [updateLightboxImage([g EXCEPT !.currentImageIndex = index])
             EXCEPT !.lightboxActive = TRUE, !.bodyNoScroll = TRUE,
                    !.focusTimers = @ + 1]

\* Mutant of closeLightbox: 'no-scroll' stays on the body.
closeLightbox_KeepsNoScroll(g) ==
    IF ~lightbox THEN g ELSE [g EXCEPT !.lightboxActive = FALSE]

\* Mutant of closeLightbox: the index is reset to the first image.
closeLightbox_ResetsIndex(g) ==
    IF ~lightbox THEN g
    ELSE [g EXCEPT !.lightboxActive = FALSE, !.bodyNoScroll = FALSE,
                   !.currentImageIndex = 0]

closeLightbox(g) ==
    IF ~lightbox THEN g
    ELSE [g EXCEPT !.lightboxActive = FALSE, !.bodyNoScroll = FALSE]

\* Mutant of showPrevImage: (currentImageIndex - 1) % galleryImages.length
showPrevImage_NoAddLength(g) ==
    updateLightboxImage(
        [g EXCEPT !.currentImageIndex = JsRem(JsAdd(@, 0 - 1), Len(galleryImages))])

\* (currentImageIndex - 1 + galleryImages.length) % galleryImages.length
showPrevImage(g) ==
    updateLightboxImage(
        [g EXCEPT !.currentImageIndex =
            JsRem(JsAdd(JsAdd(@, 0 - 1), Len(galleryImages)), Len(galleryImages))])

\* Mutant of showNextImage: currentImageIndex + 1, without the remainder.
showNextImage_NoWrap(g) ==
    updateLightboxImage([g EXCEPT !.currentImageIndex = JsAdd(@, 1)])

\* (currentImageIndex + 1) % galleryImages.length
showNextImage(g) ==
    updateLightboxImage(
        [g EXCEPT !.currentImageIndex = JsRem(JsAdd(@, 1), Len(galleryImages))])

\* Mutant of handleLightboxKeyboard: the 'gallery__lightbox--active' test is missing.
handleLightboxKeyboard_NoActiveTest(g, key) ==
    IF ~lightbox THEN g
    ELSE CASE key = "Escape" -> closeLightbox(g)
           [] key = "ArrowLeft" -> showPrevImage(g)
           [] key = "ArrowRight" -> showNextImage(g)
           [] OTHER -> g

handleLightboxKeyboard(g, key) ==
    IF ~lightbox \/ ~g.lightboxActive THEN g
    ELSE CASE key = "Escape" -> closeLightbox(g)
           [] key = "ArrowLeft" -> showPrevImage(g)
           [] key = "ArrowRight" -> showNextImage(g)
           [] OTHER -> g

\* Mutant of handleSwipe: any leftward or rightward movement counts as a swipe.
handleSwipe_NoThreshold(g, startX, endX) ==
    LET g1 == IF endX < startX THEN showNextImage(g) ELSE g
    IN  IF endX > startX THEN showPrevImage(g1) ELSE g1

\* handleSwipe: two independent tests, in this order.
handleSwipe(g, startX, endX) ==
    LET g1 == IF endX < startX - SwipeThreshold THEN showNextImage(g) ELSE g
    IN  IF endX > startX + SwipeThreshold THEN showPrevImage(g1) ELSE g1

\* The keydown listener initGallery puts on gallery item index.
itemKeydown(g, index, key) ==
    IF key = "Enter" \/ key = " " THEN openLightbox(g, index) ELSE g

\* initGallery on a document with n gallery items: the descriptor of item i
\* is identified by its index field.
initGalleryImages(n) == [i \in 1 .. n |-> i - 1]

\* ================================================================== Init
\* The state when the DOMContentLoaded handler of main.js has returned, for a
\* document with n gallery items. The module-level 100 ms timer of gallery.js
\* is still pending, or has already run while lightbox was null.
Init ==
    /\ isMenuOpen = FALSE
    /\ burgerActive = FALSE
    /\ navOpen = FALSE
    /\ overlayVisible = FALSE
    /\ bodyMenuOpen = FALSE
    /\ ariaExpanded = "false"
    /\ ariaHidden = "true"
    /\ menuFocusTimers = 0
    /\ menuResizeTimer = FALSE
    /\ mainResizeTimer = FALSE
    /\ innerWidth \in Widths
    /\ activeElement = "body"
    /\ currentImageIndex = 0
    /\ \E n \in 0 .. MaxImages :
          /\ galleryImages = initGalleryImages(n)
          /\ lightbox = (n # 0)
    /\ lightboxActive = FALSE
    /\ bodyNoScroll = FALSE
    /\ shownImage = NoImage
    /\ lightboxFocusTimers = 0
    /\ preloaded = {}
    /\ swipeTimer \in BOOLEAN
    /\ swipeInstalled = FALSE
    /\ touchStartX = 0
    /\ reducedMotion \in BOOLEAN
    /\ LET r == initScrollAnimations(
                    [observer |-> FALSE, watched |-> {}, stale |-> {},
                     connected |-> FALSE, staleConnected |-> FALSE,
                     inFlight |-> {}, visible |-> {}],
                    reducedMotion)
       IN  /\ observer = r.observer
           /\ watched = r.watched
           /\ staleWatched = r.stale
           /\ connected = r.connected
           /\ staleConnected = r.staleConnected
           /\ inFlight = r.inFlight
           /\ visible = r.visible
    /\ navLinks \in Documents
    /\ locationHash \in Fragments
    /\ \E markup \in SUBSET DOMAIN navLinks :
          LET v == initNavigation([active |-> markup, lastId |-> <<>>], locationHash)
          IN  /\ navActive = v.active
              /\ lastSectionId = v.lastId
    /\ menuMarkup \in BOOLEAN
    /\ \E inMarkup \in BOOLEAN : overlayAppended = createOverlay(inMarkup)
    /\ spyWatcher = initScrollSpy(navLinks)
    /\ debounceTimers = {}
    /\ timeout = 0
    /\ debounceCalls = <<>>
    /\ funcInvocations = <<>>
    /\ sinceLastCall = DebounceWait
    /\ lastOp = Op("init", FALSE)
    /\ hist = <<>>

\* One document for the specifications that never reach navigation.js: the
\* burger and the panel but no overlay, a link to each section, the first one
\* twice, and no fragment in the URL.
OneDocument ==
    /\ navLinks = [l \in 1 .. MaxLinks |->
                     Hash(SectionIds[IF l <= NumSections THEN l ELSE 1])]
    /\ locationHash = <<>>
    /\ menuMarkup /\ overlayAppended

\* One page around navigation.js: the burger and the panel but no overlay, no
\* gallery item, the width at the breakpoint, no reduced-motion preference.
OnePage ==
    /\ innerWidth = Breakpoint
    /\ galleryImages = <<>>
    /\ ~swipeTimer
    /\ ~reducedMotion
    /\ menuMarkup /\ overlayAppended

\* The state after DOMContentLoaded of a page with that document, and of that
\* page with any document.
InitOneDocument == Init /\ OneDocument

\* The place of an href among the fragments: the other element's, then the
\* sections' in document order.
HrefOrder(href) ==
    IF href = Hash(TopId) THEN 0
    ELSE CHOOSE i \in 1 .. NumSections : Hash(SectionIds[i]) = href

\* navigation.js treats a link alike wherever it stands in the document, so
\* of the documents with the same hrefs the one listing them in order is kept.
LinksInOrder ==
    \A l \in 1 .. (Len(navLinks) - 1) :
        HrefOrder(navLinks[l]) <= HrefOrder(navLinks[l + 1])

InitOnePage == Init /\ OnePage /\ LinksInOrder

\* The state after DOMContentLoaded of a page without gallery items.
InitNoGallery ==
    InitOneDocument /\ galleryImages = <<>> /\ ~swipeTimer /\ innerWidth = Breakpoint

\* ========================================================== menu actions
\* What every action outside gallery.js leaves alone.
GalleryUnchanged == UNCHANGED <<galleryVars, galleryInitVars, swipeVars, hist>>
\* What a menu click leaves alone.
MenuFrame == UNCHANGED <<timerVars, activeElement, revealVars, reducedMotion>>

\* click on '.header__burger'
BurgerClick ==
    LET m == toggleMenu(MenuState)
    IN  /\ m.focusTimers <= MaxPendingTimers
        /\ SetMenu(m)
        /\ menuMarkup
        /\ UNCHANGED <<navVars, debounceVars, markupVars>>
        /\ lastOp' = Op("burgerClick", m # MenuState)
        /\ MenuFrame
        /\ GalleryUnchanged

\* click on the overlay
OverlayClick ==
    LET m == closeMenu(MenuState)
    IN  /\ SetMenu(m)
        /\ menuMarkup
        /\ UNCHANGED <<navVars, debounceVars, markupVars>>
        /\ lastOp' = Op("overlayClick", m # MenuState)
        /\ MenuFrame
        /\ GalleryUnchanged

\* click on a '.nav__link' of the panel: the listener of initMobileMenu runs
\* first (registered first), then initSmoothScroll's when the link is an anchor.
PanelLinkClick(href) ==
    LET m == smoothScrollClick(closeMenu(MenuState), href)
    IN  /\ SetMenu(m)
        /\ menuMarkup
        /\ UNCHANGED <<navVars, debounceVars, markupVars>>
        /\ lastOp' = OpS("panelLinkClick", href, m # MenuState)
        /\ MenuFrame
        /\ GalleryUnchanged

\* click on an a[href^="#"] that is not a '.nav__link' of the panel
AnchorClick(href) ==
    LET m == smoothScrollClick(MenuState, href)
    IN  /\ href # "external"
        /\ SetMenu(m)
        /\ UNCHANGED <<navVars, debounceVars, markupVars>>
        /\ lastOp' = OpS("anchorClick", href, m # MenuState)
        /\ MenuFrame
        /\ GalleryUnchanged

\* the exported openMenu, called with the menu's elements
CallOpenMenu ==
    LET m == openMenu(MenuState)
    IN  /\ m.focusTimers <= MaxPendingTimers
        /\ SetMenu(m)
        /\ menuMarkup
        /\ UNCHANGED <<navVars, debounceVars, markupVars>>
        /\ lastOp' = Op("openMenu", m # MenuState)
        /\ MenuFrame
        /\ GalleryUnchanged

\* the exported closeMenu, called with the menu's elements
CallCloseMenu ==
    LET m == closeMenu(MenuState)
    IN  /\ SetMenu(m)
        /\ menuMarkup
        /\ UNCHANGED <<navVars, debounceVars, markupVars>>
        /\ lastOp' = Op("closeMenu", m # MenuState)
        /\ MenuFrame
        /\ GalleryUnchanged

\* keydown on the document: handleLightboxKeyboard and the menu's listener both run.
KeyDown(key) ==
    LET g == handleLightboxKeyboard(GalleryState, key)
        m == IF menuMarkup THEN menuKeydown(MenuState, key) ELSE MenuState
    IN  /\ SetGallery(g)
        /\ SetMenu(m)
        /\ UNCHANGED <<navVars, debounceVars, markupVars>>
        /\ lastOp' = [op |-> "keydown", s |-> key,
                      n |-> (IF isMenuOpen THEN 1 ELSE 0)
                            + (IF lightboxActive THEN 1 ELSE 0),
                      changed |-> (m # MenuState \/ g # GalleryState)]
        /\ hist' = <<>>
        /\ UNCHANGED <<timerVars, activeElement, galleryInitVars, swipeVars,
                       revealVars, reducedMotion>>

\* resize of the window: both listeners clear and restart their 250 ms timer.
Resize(width) ==
    /\ innerWidth' = width
    /\ menuResizeTimer' = menuMarkup
    /\ mainResizeTimer' = TRUE
    /\ UNCHANGED <<navVars, debounceVars, markupVars>>
    /\ lastOp' = OpN("resize", width, FALSE)
    /\ UNCHANGED <<menuVars, activeElement, revealVars, reducedMotion>>
    /\ GalleryUnchanged

\* the 250 ms timer of initMobileMenu's resize listener expires
FireMenuResizeTimer ==
    LET m == menuResizeCallback(MenuState, innerWidth)
    IN  /\ menuResizeTimer
        /\ menuResizeTimer' = FALSE
        /\ SetMenu(m)
        /\ menuMarkup
        /\ UNCHANGED <<navVars, debounceVars, markupVars>>
        /\ lastOp' = Op("menuResizeTimer", m # MenuState)
        /\ UNCHANGED <<mainResizeTimer, innerWidth, activeElement, revealVars,
                       reducedMotion>>
        /\ GalleryUnchanged

\* the 250 ms timer of main.js's resize listener expires
FireMainResizeTimer ==
    LET m == mainResizeMenu(MenuState, innerWidth)
    IN  /\ mainResizeTimer
        /\ mainResizeTimer' = FALSE
        /\ SetMenu(m)
        /\ SetReveal(mainResizeReveal(RevealState, reducedMotion))
        /\ UNCHANGED <<navVars, debounceVars, markupVars>>
        /\ lastOp' = Op("mainResizeTimer", m # MenuState)
        /\ UNCHANGED <<menuResizeTimer, innerWidth, activeElement, reducedMotion>>
        /\ GalleryUnchanged

\* a 300 ms timer of openMenu expires: firstLink.focus()
FireMenuFocusTimer ==
    /\ menuFocusTimers > 0
    /\ menuFocusTimers' = menuFocusTimers - 1
    /\ activeElement' = "firstLink"
    /\ menuMarkup
    /\ UNCHANGED <<navVars, debounceVars, markupVars>>
    /\ lastOp' = Op("menuFocusTimer", TRUE)
    /\ UNCHANGED <<isMenuOpen, burgerActive, navOpen, overlayVisible, bodyMenuOpen,
                   ariaExpanded, ariaHidden, timerVars, revealVars, reducedMotion>>
    /\ GalleryUnchanged

\* ======================================================== reveal actions
\* What every reveal action leaves alone, the media query aside.
RevealFrame ==
    /\ UNCHANGED <<menuVars, timerVars, activeElement>>
    /\ GalleryUnchanged

\* the current watcher delivers entries; S are the targets that intersect
ObserverCallback(S) ==
    LET r == observerCallback(RevealState, S)
    IN  /\ observer
        /\ S \subseteq watched
        /\ SetReveal(r)
        /\ UNCHANGED <<navVars, debounceVars, markupVars>>
        /\ lastOp' = [op |-> "observerCallback",
                      s |-> IF S \cap visible # {} THEN "repeat" ELSE "first",
                      n |-> Cardinality(S), changed |-> r # RevealState]
        /\ UNCHANGED reducedMotion
        /\ RevealFrame

\* a replaced watcher that was never disconnected delivers entries
StaleObserverCallback(S) ==
    LET r == observerCallback(RevealState, S)
    IN  /\ S # {}
        /\ S \subseteq staleWatched
        /\ SetReveal(r)
        /\ UNCHANGED <<navVars, debounceVars, markupVars>>
        /\ lastOp' = [op |-> "staleObserverCallback",
                      s |-> IF S \cap visible # {} THEN "repeat" ELSE "first",
                      n |-> Cardinality(S), changed |-> r # RevealState]
        /\ UNCHANGED reducedMotion
        /\ RevealFrame

\* a disconnected watcher delivers the entries it had queued; S are the
\* targets among them that intersect
InFlightCallback(S) ==
    LET r == observerCallback([RevealState EXCEPT !.inFlight = {}], S)
    IN  /\ S # {}
        /\ S \subseteq inFlight
        /\ SetReveal(r)
        /\ UNCHANGED <<navVars, debounceVars, markupVars>>
        /\ lastOp' = [op |-> "inFlightCallback",
                      s |-> IF S \cap visible # {} THEN "repeat" ELSE "first",
                      n |-> Cardinality(S), changed |-> r # RevealState]
        /\ UNCHANGED reducedMotion
        /\ RevealFrame

\* the exported disconnectObserver
DisconnectObserverCall ==
    LET r == disconnectObserver(RevealState)
    IN  /\ SetReveal(r)
        /\ UNCHANGED <<navVars, debounceVars, markupVars>>
        /\ lastOp' = Op("disconnectObserver", r # RevealState)
        /\ UNCHANGED reducedMotion
        /\ RevealFrame

\* the exported reconnectObserver
ReconnectObserverCall ==
    LET r == reconnectObserver(RevealState)
    IN  /\ SetReveal(r)
        /\ UNCHANGED <<navVars, debounceVars, markupVars>>
        /\ lastOp' = Op("reconnectObserver", r # RevealState)
        /\ UNCHANGED reducedMotion
        /\ RevealFrame

\* the exported initScrollAnimations, called again after startup
InitScrollAnimationsCall ==
    LET r == initScrollAnimations(RevealState, reducedMotion)
    IN  /\ SetReveal(r)
        /\ UNCHANGED <<navVars, debounceVars, markupVars>>
        /\ lastOp' = Op("initScrollAnimations", r # RevealState)
        /\ UNCHANGED reducedMotion
        /\ RevealFrame

\* the user's reduced-motion preference changes: the media query's listener runs
MediaChange ==
    LET r == mediaChange(RevealState, ~reducedMotion)
    IN  /\ reducedMotion' = ~reducedMotion
        /\ SetReveal(r)
        /\ UNCHANGED <<navVars, debounceVars, markupVars>>
        /\ lastOp' = OpS("mediaChange",
                          IF reducedMotion THEN "no-preference" ELSE "reduce", TRUE)
        /\ RevealFrame

\* the exported triggerAnimation(element)
TriggerAnimationCall(element) ==
    LET r == triggerAnimation(RevealState, element)
    IN  /\ SetReveal(r)
        /\ UNCHANGED <<navVars, debounceVars, markupVars>>
        /\ lastOp' = OpN("triggerAnimation", element, r # RevealState)
        /\ UNCHANGED reducedMotion
        /\ RevealFrame

\* the exported resetAnimation(element)
ResetAnimationCall(element) ==
    LET r == resetAnimation(RevealState, element)
    IN  /\ SetReveal(r)
        /\ UNCHANGED <<navVars, debounceVars, markupVars>>
        /\ lastOp' = OpN("resetAnimation", element, r # RevealState)
        /\ UNCHANGED reducedMotion
        /\ RevealFrame

\* ======================================================= gallery actions
\* What every gallery action leaves alone.
GalleryFrame ==
    UNCHANGED <<menuVars, timerVars, galleryInitVars, revealVars, reducedMotion>>

\* openLightbox(index): the click and Enter/space listeners of gallery item
\* index, and the exported function called with any integer.
OpenLightboxCall(index) ==
    LET g == openLightbox(GalleryState, index)
    IN  /\ g.focusTimers <= MaxPendingTimers
        /\ SetGallery(g)
        /\ UNCHANGED <<navVars, debounceVars, markupVars>>
        /\ lastOp' = OpN("openLightbox", index, g # GalleryState)
        /\ hist' = IF lightbox /\ HasImage(index)
                   THEN <<[op |-> "open", idx |-> g.currentImageIndex]>>
                   ELSE <<>>
        /\ UNCHANGED <<activeElement, swipeVars>>
        /\ GalleryFrame

\* keydown on gallery item index: the item's listener runs, then the event
\* bubbles to the document's listeners.
ItemKeyDown(index, key) ==
    LET g1 == itemKeydown(GalleryState, index, key)
        g == handleLightboxKeyboard(g1, key)
        m == IF menuMarkup THEN menuKeydown(MenuState, key) ELSE MenuState
    IN  /\ HasImage(index)
        /\ g.focusTimers <= MaxPendingTimers
        /\ SetGallery(g)
        /\ SetMenu(m)
        /\ UNCHANGED <<navVars, debounceVars, markupVars>>
        /\ lastOp' = [op |-> "itemKeydown", s |-> key, n |-> index,
                      changed |-> (m # MenuState \/ g # GalleryState)]
        /\ hist' = IF g1 # GalleryState
                   THEN <<[op |-> "open", idx |-> g.currentImageIndex]>>
                   ELSE <<>>
        /\ UNCHANGED <<timerVars, activeElement, galleryInitVars, swipeVars,
                       revealVars, reducedMotion>>

\* closeLightbox: the close button, a click on the lightbox itself, the export.
CloseLightboxCall ==
    LET g == closeLightbox(GalleryState)
    IN  /\ SetGallery(g)
        /\ UNCHANGED <<navVars, debounceVars, markupVars>>
        /\ lastOp' = Op("closeLightbox", g # GalleryState)
        /\ hist' = <<>>
        /\ UNCHANGED <<activeElement, swipeVars>>
        /\ GalleryFrame

\* The index after each of the calls made in a row since a successful openLightbox.
Record(name, g) ==
    IF hist # <<>> /\ Len(hist) <= Len(galleryImages)
    THEN Append(hist, [op |-> name, idx |-> g.currentImageIndex])
    ELSE <<>>

\* showNextImage: the next button and the exported function.
ShowNextCall ==
    LET g == showNextImage(GalleryState)
    IN  /\ SetGallery(g)
        /\ UNCHANGED <<navVars, debounceVars, markupVars>>
        /\ lastOp' = Op("showNextImage", g # GalleryState)
        /\ hist' = Record("next", g)
        /\ UNCHANGED <<activeElement, swipeVars>>
        /\ GalleryFrame

\* showPrevImage: the prev button and the exported function.
ShowPrevCall ==
    LET g == showPrevImage(GalleryState)
    IN  /\ SetGallery(g)
        /\ UNCHANGED <<navVars, debounceVars, markupVars>>
        /\ lastOp' = Op("showPrevImage", g # GalleryState)
        /\ hist' = Record("prev", g)
        /\ UNCHANGED <<activeElement, swipeVars>>
        /\ GalleryFrame

\* touchstart on the lightbox
TouchStart(x) ==
    /\ swipeInstalled
    /\ touchStartX' = x
    /\ UNCHANGED <<navVars, debounceVars, markupVars>>
    /\ lastOp' = OpN("touchstart", x, FALSE)
    /\ hist' = <<>>
    /\ UNCHANGED <<galleryVars, activeElement, swipeTimer, swipeInstalled>>
    /\ GalleryFrame

\* touchend on the lightbox: touchEndX is set and handleSwipe runs
TouchEnd(x) ==
    LET g == handleSwipe(GalleryState, touchStartX, x)
    IN  /\ swipeInstalled
        /\ SetGallery(g)
        /\ UNCHANGED <<navVars, debounceVars, markupVars>>
        /\ lastOp' = OpN("touchend", x, g # GalleryState)
        /\ hist' = <<>>
        /\ UNCHANGED <<activeElement, swipeVars>>
        /\ GalleryFrame

\* the module-level 100 ms timer expires: initSwipeSupport when lightbox is set
FireSwipeTimer ==
    /\ swipeTimer
    /\ swipeTimer' = FALSE
    /\ swipeInstalled' = lightbox
    /\ UNCHANGED <<navVars, debounceVars, markupVars>>
    /\ lastOp' = Op("swipeTimer", FALSE)
    /\ UNCHANGED <<galleryVars, activeElement, touchStartX, hist>>
    /\ GalleryFrame

\* a 100 ms timer of openLightbox expires: closeBtn.focus()
FireLightboxFocusTimer ==
    /\ lightboxFocusTimers > 0
    /\ lightboxFocusTimers' = lightboxFocusTimers - 1
    /\ activeElement' = "closeBtn"
    /\ UNCHANGED <<navVars, debounceVars, markupVars>>
    /\ lastOp' = Op("lightboxFocusTimer", TRUE)
    /\ UNCHANGED <<currentImageIndex, lightboxActive, bodyNoScroll, shownImage,
                   preloaded, swipeVars, hist>>
    /\ GalleryFrame

\* ==================================================== navigation actions
\* What every navigation action leaves alone.
NavFrame ==
    /\ UNCHANGED <<menuVars, timerVars, activeElement, revealVars, reducedMotion,
                   debounceVars, markupVars>>
    /\ GalleryUnchanged

\* the scroll spy's watcher delivers a batch of entries
ScrollSpyCallback(entries) ==
    LET v == scrollSpyCallback(NavState, entries)
    IN  /\ spyWatcher
        /\ SetNav(v)
        /\ UNCHANGED locationHash
        /\ lastOp' = OpN("scrollSpyCallback", Len(entries), v # NavState)
        /\ NavFrame

\* the fragment of the URL changes to hash: the hashchange listener runs
HashChange(hash) ==
    LET v == hashchange(NavState, hash)
    IN  /\ hash # locationHash
        /\ locationHash' = hash
        /\ SetNav(v)
        /\ lastOp' = OpN("hashchange", Len(hash), v # NavState)
        /\ NavFrame

\* the exported updateActiveLink(sectionId)
UpdateActiveLinkCall(sectionId) ==
    LET v == updateActiveLink(NavState, sectionId)
    IN  /\ SetNav(v)
        /\ UNCHANGED locationHash
        /\ lastOp' = Op("updateActiveLink", v # NavState)
        /\ NavFrame

\* the exported initNavigation, called again after startup
InitNavigationCall ==
    LET v == initNavigation(NavState, locationHash)
    IN  /\ SetNav(v)
        /\ UNCHANGED locationHash
        /\ lastOp' = Op("initNavigation", v # NavState)
        /\ NavFrame

\* ====================================================== debounce actions
\* What every debounce action leaves alone.
DebounceFrame ==
    /\ UNCHANGED <<menuVars, timerVars, activeElement, revealVars, reducedMotion,
                   navVars, markupVars>>
    /\ GalleryUnchanged

\* a scroll event: the debounced listener is called with it
DebouncedCall(args) ==
    LET d == executedFunction(DebounceState, args)
    IN  /\ Len(debounceCalls) < MaxCalls
        /\ SetDebounce(d)
        /\ lastOp' = OpS("debouncedCall", args, TRUE)
        /\ DebounceFrame

\* a timer whose wait is over runs later
FireDebounceTimer ==
    \E t \in debounceTimers :
        LET d == later(DebounceState, t)
        IN  /\ t.remaining = 0
            /\ SetDebounce(d)
            /\ lastOp' = OpN("debounceTimer", t.id, TRUE)
            /\ DebounceFrame

\* time passes
Tick ==
    LET d == elapse(DebounceState, TickMs)
    IN  /\ d # DebounceState
        /\ SetDebounce(d)
        /\ lastOp' = OpN("tick", TickMs, FALSE)
        /\ DebounceFrame

\* ======================================================== specifications
\* The events that reach the mobile menu.
NextMenu ==
    \/ BurgerClick
    \/ OverlayClick
    \/ \E href \in HrefKinds : PanelLinkClick(href)
    \/ \E href \in HrefKinds : AnchorClick(href)
    \/ CallOpenMenu
    \/ CallCloseMenu
    \/ \E key \in Keys : KeyDown(key)
    \/ \E width \in Widths : Resize(width)
    \/ FireMenuResizeTimer
    \/ FireMainResizeTimer
    \/ FireMenuFocusTimer

\* The state after DOMContentLoaded of a page with the menu and no gallery
\* items, without reduced motion.
InitMenu == InitOneDocument /\ galleryImages = <<>> /\ ~swipeTimer /\ ~reducedMotion

SpecMenu == InitMenu /\ [][NextMenu]_vars

\* Timers expire: a pending setTimeout callback is eventually run.
SpecMenuFair ==
    /\ SpecMenu
    /\ WF_vars(FireMenuResizeTimer)
    /\ WF_vars(FireMainResizeTimer)
    /\ WF_vars(FireMenuFocusTimer)

\* The events that reach the lightbox.
NextGallery ==
    \/ \E index \in IndexArgs : OpenLightboxCall(index)
    \/ CloseLightboxCall
    \/ ShowNextCall
    \/ ShowPrevCall
    \/ \E key \in Keys : KeyDown(key)
    \/ \E index \in IndexArgs, key \in ItemKeys : ItemKeyDown(index, key)
    \/ \E x \in TouchXs : TouchStart(x)
    \/ \E x \in TouchXs : TouchEnd(x)
    \/ FireSwipeTimer
    \/ FireLightboxFocusTimer

\* The state after DOMContentLoaded at one width, without reduced motion, with
\* any gallery and the swipe timer pending or expired.
InitGallery == InitOneDocument /\ innerWidth = Breakpoint /\ ~reducedMotion

SpecGallery == InitGallery /\ [][NextGallery]_vars

\* The events that reach the reveal watcher.
NextReveal ==
    \/ \E S \in SUBSET Animated : ObserverCallback(S)
    \/ \E S \in SUBSET Animated : StaleObserverCallback(S)
    \/ \E S \in SUBSET Animated : InFlightCallback(S)
    \/ DisconnectObserverCall
    \/ ReconnectObserverCall
    \/ InitScrollAnimationsCall
    \/ MediaChange
    \/ \E element \in Animated : TriggerAnimationCall(element)
    \/ \E element \in Animated : ResetAnimationCall(element)
    \/ Resize(innerWidth)    \* a resize of the height: the width plays no part here
    \/ FireMainResizeTimer

SpecReveal == InitNoGallery /\ [][NextReveal]_vars

\* The events of a page that calls none of the module's exports again: the
\* watchers' callbacks, resizes and changes of the reduced-motion preference.
NextWatcher ==
    \/ \E S \in SUBSET Animated : ObserverCallback(S)
    \/ \E S \in SUBSET Animated : InFlightCallback(S)
    \/ MediaChange
    \/ \E width \in Widths : Resize(width)
    \/ FireMainResizeTimer

SpecWatcher == InitNoGallery /\ [][NextWatcher]_vars

\* The events that reach the navigation links.
NextNav ==
    \/ \E entries \in EntryBatches : ScrollSpyCallback(entries)
    \/ \E hash \in Fragments : HashChange(hash)
    \/ \E i \in 1 .. NumSections : UpdateActiveLinkCall(SectionIds[i])
    \/ UpdateActiveLinkCall(TopId)
    \/ InitNavigationCall

SpecNav == InitOnePage /\ [][NextNav]_vars

\* The events that reach a debounced listener.
NextDebounce ==
    \/ \E args \in ScrollEvents : DebouncedCall(args)
    \/ FireDebounceTimer
    \/ Tick

\* One document on one page, for the specifications of the helpers.
InitQuiet == Init /\ OneDocument /\ OnePage

\* A timer whose wait is over is run, and time passes.
SpecDebounce ==
    /\ InitQuiet /\ [][NextDebounce]_vars
    /\ WF_vars(FireDebounceTimer)
    /\ WF_vars(Tick)

\* The events that reach the menu and the lightbox of one page.
NextPage ==
    \/ BurgerClick
    \/ CallOpenMenu
    \/ CallCloseMenu
    \/ \E href \in HrefKinds : AnchorClick(href)
    \/ \E index \in IndexArgs : OpenLightboxCall(index)
    \/ CloseLightboxCall
    \/ ShowNextCall
    \/ ShowPrevCall
    \/ \E key \in Keys : KeyDown(key)
    \/ FireMenuFocusTimer
    \/ FireLightboxFocusTimer

\* The state after DOMContentLoaded at one width, without reduced motion.
InitPage ==
    /\ Init /\ OneDocument
    /\ innerWidth = Breakpoint /\ ~swipeTimer /\ ~reducedMotion

SpecPage == InitPage /\ [][NextPage]_vars

\* The events of a page whose markup may lack the menu, the gallery items or
\* the navigation links.
NextMarkup ==
    \/ BurgerClick
    \/ \E key \in Keys : KeyDown(key)
    \/ \E index \in IndexArgs, key \in ItemKeys : ItemKeyDown(index, key)
    \/ \E x \in TouchXs : TouchStart(x)
    \/ \E x \in TouchXs : TouchEnd(x)
    \/ FireSwipeTimer
    \/ \E width \in Widths : Resize(width)
    \/ FireMenuResizeTimer
    \/ FireMainResizeTimer
    \/ FireMenuFocusTimer
    \/ FireLightboxFocusTimer
    \/ \E entries \in EntryBatches : ScrollSpyCallback(entries)
    \/ \E hash \in Fragments : HashChange(hash)

\* The state after DOMContentLoaded of a document that holds the markup of
\* at most one of the menu, the gallery and the navigation links, and at most
\* one gallery item or nav link.
InitMarkup ==
    /\ Init
    /\ innerWidth = Breakpoint /\ ~reducedMotion /\ locationHash = <<>>
    /\ Len(galleryImages) <= 1 /\ Len(navLinks) <= 1
    /\ menuMarkup => galleryImages = <<>> /\ navLinks = <<>>
    /\ galleryImages # <<>> => navLinks = <<>>

SpecMarkup == InitMarkup /\ [][NextMarkup]_vars

Next ==
    \/ NextMenu \/ NextGallery \/ NextReveal \/ NextWatcher \/ NextNav
    \/ NextDebounce \/ NextPage \/ NextMarkup

Spec == Init /\ [][Next]_vars

\* ============================================================ properties
\* The burger, panel, overlay, body and both ARIA attributes all show "open".
MenuShownOpen ==
    /\ burgerActive /\ navOpen /\ overlayVisible /\ bodyMenuOpen
    /\ ariaExpanded = "true" /\ ariaHidden = "false"

\* The burger, panel, overlay, body and both ARIA attributes all show "closed".
MenuShownClosed ==
    /\ ~burgerActive /\ ~navOpen /\ ~overlayVisible /\ ~bodyMenuOpen
    /\ ariaExpanded = "false" /\ ariaHidden = "true"

\* C1: in every reachable state the menu's classes and ARIA attributes are a
\* function of isMenuOpen: all of them show "open" exactly when the flag is set.
C1_ViewFollowsFlag ==
    /\ isMenuOpen => MenuShownOpen
    /\ ~isMenuOpen => MenuShownClosed

\* C2: closeMenu called in a Closed state, and openMenu called in an Open state,
\* change no class or attribute and have no further effect (no timer is started).
C2_RedundantCallIsNoOp ==
    [][/\ (lastOp'.op = "closeMenu" /\ ~isMenuOpen) => UNCHANGED menuVars
       /\ (lastOp'.op = "openMenu" /\ isMenuOpen) => UNCHANGED menuVars]_vars

\* C3: a burger click (toggleMenu) from Closed ends Open with every class and
\* attribute showing open, from Open ends Closed with all of them reverted; and
\* an Escape press right after a toggle that opened the menu ends Closed.
C3_ToggleInverts ==
    [][/\ lastOp'.op = "burgerClick" =>
            IF isMenuOpen THEN ~isMenuOpen' /\ MenuShownClosed'
                          ELSE isMenuOpen' /\ MenuShownOpen'
       /\ ( /\ lastOp.op = "burgerClick" /\ isMenuOpen
            /\ lastOp'.op = "keydown" /\ lastOp'.s = "Escape" )
            => ~isMenuOpen' /\ MenuShownClosed']_vars

\* C3 witness: a toggle has just opened the menu, with the scroll lock set.
C3_Witness ==
    /\ lastOp.op = "burgerClick" /\ lastOp.changed
    /\ isMenuOpen /\ MenuShownOpen

\* C4: with the flag set, an overlay click, a click on a panel link and an
\* Escape press each end with the flag cleared and every class and attribute
\* showing closed; an Escape press with the flag clear changes nothing of the menu.
C4_CloseTriggers ==
    [][/\ ( /\ isMenuOpen
            /\ \/ lastOp'.op \in {"overlayClick", "panelLinkClick"}
               \/ lastOp'.op = "keydown" /\ lastOp'.s = "Escape" )
            => ~isMenuOpen' /\ MenuShownClosed'
       /\ (~isMenuOpen /\ lastOp'.op = "keydown" /\ lastOp'.s = "Escape")
            => UNCHANGED menuVars]_vars

\* C4 witness: an Escape press has just changed the menu and left it closed.
C4_Witness ==
    /\ lastOp.op = "keydown" /\ lastOp.s = "Escape" /\ lastOp.changed
    /\ ~lightboxActive
    /\ ~isMenuOpen /\ MenuShownClosed

\* The handlers of the menu's own inputs (everything but resize and the timers).
MenuInputOps ==
    {"burgerClick", "overlayClick", "panelLinkClick", "anchorClick", "openMenu",
     "closeMenu", "keydown"}

\* C5: when a resize has left the width at or above the breakpoint with the menu
\* Open, then, unless a later resize goes below the breakpoint or a menu input
\* arrives, the menu ends Closed with the flag, the classes and both attributes
\* reverted, whichever of the two resize timers expires first; and a resize
\* timer that expires below the breakpoint changes nothing of the menu.
C5_ResizeCloses ==
    /\ ( /\ lastOp.op = "resize" /\ innerWidth >= Breakpoint
         /\ isMenuOpen /\ menuResizeTimer /\ mainResizeTimer )
         ~> ( \/ ~isMenuOpen /\ MenuShownClosed
              \/ innerWidth < Breakpoint
              \/ lastOp.op \in MenuInputOps )
    /\ [][( /\ lastOp'.op \in {"menuResizeTimer", "mainResizeTimer"}
            /\ innerWidth < Breakpoint ) => UNCHANGED menuVars]_vars

\* C5 witness: the menu's resize timer has just closed the menu at desktop
\* width, with main.js's timer still pending.
C5_Witness ==
    /\ lastOp.op = "menuResizeTimer" /\ lastOp.changed
    /\ innerWidth >= Breakpoint /\ mainResizeTimer
    /\ ~isMenuOpen /\ MenuShownClosed

\* n, the length of the gallery.
NumImages == Len(galleryImages)

\* The calls 2..Len(hist) recorded in hist are all "next".
AllNext == \A j \in 2 .. Len(hist) : hist[j].op = "next"

\* C6: with n >= 1 images and the index in [0, n), showNextImage sets the index
\* to (i + 1) mod n and showPrevImage to (i - 1 + n) mod n; for three images,
\* openLightbox(0) and three showNextImage give the indices 0, 1, 2, 0.
C6_ModularNavigation ==
    /\ [][( /\ NumImages >= 1 /\ currentImageIndex \in 0 .. (NumImages - 1)
            /\ lastOp'.op \in {"showNextImage", "showPrevImage"} )
            => currentImageIndex' =
                 IF lastOp'.op = "showNextImage"
                 THEN (currentImageIndex + 1) % NumImages
                 ELSE (currentImageIndex - 1 + NumImages) % NumImages]_vars
    /\ []( ( /\ NumImages = 3 /\ Len(hist) = 4 /\ AllNext
             /\ hist[1].idx = 0 )
           => [j \in 1 .. 4 |-> hist[j].idx] = <<0, 1, 2, 0>> )

\* C6 witness: three images, openLightbox(0), then showNextImage three times.
C6_Witness ==
    /\ NumImages = 3 /\ Len(hist) = 4 /\ AllNext /\ hist[1].idx = 0
    /\ lastOp.op = "showNextImage" /\ currentImageIndex = 0

\* C7: from every valid index, next then prev and prev then next return to it,
\* and n times next returns to it.
C7_NavigationRoundTrips ==
    NumImages >= 1 =>
        /\ \A j \in 3 .. Len(hist) :
              hist[j].op # hist[j - 1].op => hist[j].idx = hist[j - 2].idx
        /\ (Len(hist) = NumImages + 1 /\ AllNext)
              => hist[Len(hist)].idx = hist[1].idx

\* C7 witness: from the last index of a gallery of two or more, n times next
\* have come back to it.
C7_Witness ==
    /\ NumImages >= 2 /\ Len(hist) = NumImages + 1 /\ AllNext
    /\ hist[1].idx = NumImages - 1 /\ currentImageIndex = NumImages - 1

\* C8: with n >= 1 images, currentImageIndex is always an integer in [0, n), and
\* what the modal holds (always, once it holds anything, and whenever it is
\* visible) is the descriptor at currentImageIndex.
C8_IndexInRange ==
    NumImages >= 1 =>
        /\ currentImageIndex \in 0 .. (NumImages - 1)
        /\ (lightboxActive \/ shownImage # NoImage)
              => shownImage = galleryImages[currentImageIndex + 1]

\* C8 witness: a swipe has just moved a visible lightbox to the last image.
C8_Witness ==
    /\ lastOp.op = "touchend" /\ lastOp.changed
    /\ NumImages >= 2 /\ lightboxActive
    /\ currentImageIndex = NumImages - 1 /\ shownImage = galleryImages[NumImages]

\* C9: openLightbox(index) with index < 0 or index >= n, or on an empty
\* gallery, changes nothing: the index, the modal's class, the image shown,
\* 'no-scroll' and the pending focus timers are as before.
C9_InvalidOpenIsNoOp ==
    ( /\ lastOp.op = "openLightbox"
      /\ (lastOp.n < 0 \/ lastOp.n >= NumImages \/ NumImages = 0) )
    => ~lastOp.changed

\* C9 witness: openLightbox(n) was called on a visible lightbox and left it as it was.
C9_Witness ==
    /\ lastOp.op = "openLightbox" /\ lastOp.n = NumImages /\ ~lastOp.changed
    /\ NumImages >= 1 /\ lightboxActive /\ shownImage = galleryImages[currentImageIndex + 1]

\* C10: on a gallery with zero images showNextImage and showPrevImage change
\* nothing: currentImageIndex stays the integer 0.
C10_EmptyGalleryNavigationIsNoOp ==
    NumImages = 0 =>
        /\ currentImageIndex = 0
        /\ lastOp.op \in {"showNextImage", "showPrevImage"} => ~lastOp.changed

\* C11: closeLightbox removes the modal's visible class and 'no-scroll' and
\* leaves currentImageIndex, the image list and the image shown as they were;
\* called on a hidden modal it changes nothing.
C11_CloseKeepsIndex ==
    [][lastOp'.op = "closeLightbox" =>
         /\ ~lightboxActive' /\ ~bodyNoScroll'
         /\ UNCHANGED <<currentImageIndex, galleryImages, shownImage>>
         /\ ~lightboxActive => UNCHANGED galleryVars]_vars

\* C11 witness: closeLightbox has just hidden a modal that shows a later image.
C11_Witness ==
    /\ lastOp.op = "closeLightbox" /\ lastOp.changed
    /\ ~lightboxActive /\ ~bodyNoScroll
    /\ currentImageIndex >= 1 /\ shownImage = galleryImages[currentImageIndex + 1]

\* What a key does to a visible modal of n images at index i: the state after.
Routed(key) ==
    /\ lightboxActive' = (key # "Escape")
    /\ bodyNoScroll' = (key # "Escape")
    /\ currentImageIndex' =
         CASE key = "ArrowLeft" -> (currentImageIndex - 1 + NumImages) % NumImages
           [] key = "ArrowRight" -> (currentImageIndex + 1) % NumImages
           [] OTHER -> currentImageIndex

C13_SwipeThreshold ==
    [][lastOp'.op = "touchend" =>
         /\ currentImageIndex' =
              CASE lastOp'.n < touchStartX - SwipeThreshold
                     -> (currentImageIndex + 1) % NumImages
                [] lastOp'.n > touchStartX + SwipeThreshold
                     -> (currentImageIndex - 1 + NumImages) % NumImages
                [] OTHER -> currentImageIndex
         /\ UNCHANGED <<lightboxActive, bodyNoScroll, lightboxFocusTimers>>]_vars

\* C13 witness: a leftward swipe over the threshold has moved three images on by one.
C13_Witness ==
    /\ lastOp.op = "touchend" /\ lastOp.changed
    /\ lastOp.n < touchStartX - SwipeThreshold
    /\ NumImages = 3 /\ currentImageIndex = 1 /\ shownImage = galleryImages[2]

\* The operations of the reveal watcher that C14 lists.
RevealOps ==
    {"observerCallback", "staleObserverCallback", "inFlightCallback", "disconnectObserver",
     "reconnectObserver", "mainResizeTimer", "mediaChange", "initScrollAnimations"}

\* C14: an element that carries 'is-visible' still carries it after every
\* watcher callback (repeated entries included), disconnectObserver,
\* reconnectObserver, resize re-initialization and reduced-motion change.
C14_RevealMonotonic ==
    [][lastOp'.op \in RevealOps => visible \subseteq visible']_vars

\* C14 witness: the watcher has delivered an intersecting entry for an element
\* that was already visible, and every element is visible.
C14_Witness ==
    /\ lastOp.op = "observerCallback" /\ lastOp.s = "repeat"
    /\ visible = Animated

\* C15: in every reachable state no element is both watched and visible.
C15_WatchedRevealedDisjoint == watched \cap visible = {}

\* C16: when initScrollAnimations runs under reduced motion (at startup, from
\* the resize callback or called again), every tagged element is visible and
\* no watcher is created: there is none if there was none, and none observes.
C16_ReducedMotionSkipsWatcher ==
    /\ reducedMotion => visible = Animated /\ ~observer /\ watched = {}
    /\ [][ /\ reducedMotion
           /\ \/ lastOp'.op = "initScrollAnimations"
              \/ lastOp'.op = "mainResizeTimer" /\ observer
           => /\ visible' = Animated
              /\ observer' = observer
              /\ staleWatched' = staleWatched
              /\ watched' \subseteq watched ]_vars

\* C16 witness: initScrollAnimations, under reduced motion and with no
\* watcher, has made every element visible again.
C16_Witness ==
    /\ lastOp.op = "initScrollAnimations" /\ lastOp.changed
    /\ reducedMotion /\ ~observer /\ visible = Animated

\* C17: right after a change to 'reduce' the current watcher observes nothing
\* and every tagged element is visible; right after a change away from
\* 'reduce' there is a watcher and it observes every tagged element.
C17_MediaChangeSwitchesMode ==
    lastOp.op = "mediaChange" =>
        IF lastOp.s = "reduce"
        THEN reducedMotion /\ watched = {} /\ visible = Animated
        ELSE ~reducedMotion /\ observer /\ watched = Animated

\* C17 witness: a change to 'reduce' has disconnected an existing watcher.
C17_Witness ==
    /\ lastOp.op = "mediaChange" /\ lastOp.s = "reduce"
    /\ observer /\ watched = {} /\ visible = Animated

\* C18: disconnectObserver empties the watch set and leaves 'is-visible' where
\* it was; without a watcher it changes nothing.
C18_DisconnectKeepsRevealed ==
    [][lastOp'.op = "disconnectObserver" =>
         /\ watched' = {}
         /\ UNCHANGED <<observer, staleWatched, visible>>
         /\ ~observer => UNCHANGED revealVars]_vars

\* C18 witness: disconnectObserver has emptied a watch set with some elements
\* visible and some not.
C18_Witness ==
    /\ lastOp.op = "disconnectObserver" /\ lastOp.changed
    /\ watched = {} /\ visible # {} /\ visible # Animated

\* The links whose href is href.
LinksTo(href) == {l \in DOMAIN navLinks : navLinks[l] = href}

C20_InitialActiveLink ==
    lastOp.op \in {"init", "initNavigation"} =>
        navActive = LinksTo(IF locationHash # <<>> THEN locationHash
                            ELSE Hash(SectionIds[1]))

\* C20 witness: initNavigation, run with a fragment in the URL, has moved the
\* active class to the one link with that href.
C20_Witness ==
    /\ lastOp.op = "initNavigation" /\ lastOp.changed
    /\ locationHash # <<>>
    /\ Cardinality(navActive) = 1
    /\ Cardinality(DOMAIN navLinks) >= 2

\* Every set of links that could carry the active class, with the current history.
PriorNavStates ==
    {[active |-> prior, lastId |-> lastSectionId] : prior \in SUBSET DOMAIN navLinks}

\* C21: from every prior active-link state, a hashchange to '#s' and a
\* callback with one intersecting entry for section s leave the same active
\* links, the links to '#s'; a hashchange to the empty fragment leaves the
\* active links as they were.
C21_HashAndScrollConverge ==
    \A v \in PriorNavStates :
        /\ \A i \in 1 .. NumSections :
              LET byHash == hashchange(v, Hash(SectionIds[i]))
                  byScroll == scrollSpyCallback(
                                  v, <<[target |-> i, isIntersecting |-> TRUE]>>)
              IN  /\ byHash.active = byScroll.active
                  /\ byHash.active = LinksTo(Hash(SectionIds[i]))
        /\ hashchange(v, <<>>) = v

\* C21 witness: a hashchange to the second section's fragment has moved the
\* active class from another link to that section's link.
C21_Witness ==
    /\ lastOp.op = "hashchange" /\ lastOp.changed
    /\ locationHash = Hash(SectionIds[2])
    /\ navActive = LinksTo(locationHash) /\ navActive # {}
    /\ navActive # DOMAIN navLinks

\* What holds of every invocation of func: it is for the latest call made so
\* far, with that call's arguments, the wait after it, and the only one for it.
InvokedForLastCall ==
    \A k \in DOMAIN funcInvocations :
        LET inv == funcInvocations[k]
        IN  /\ inv.call = inv.calls
            /\ inv.args = debounceCalls[inv.call]
            /\ inv.since = DebounceWait
            /\ \A j \in DOMAIN funcInvocations :
                  funcInvocations[j].call = inv.call => j = k

\* C22: func is only ever invoked for the last call of a burst, once, with its
\* arguments and no sooner than the wait after it; and every call is in the
\* end followed by a newer call or by its invocation.
C22_DebounceCoalesces ==
    /\ []InvokedForLastCall
    /\ \A c \in 1 .. MaxCalls :
          (Len(debounceCalls) = c /\ debounceTimers # {})
              ~> \/ Len(debounceCalls) > c
                 \/ \E k \in DOMAIN funcInvocations : funcInvocations[k].call = c

\* C22 witness: a burst of two calls with different arguments has ended in
\* one invocation, with the second call's arguments.
C22_Witness ==
    /\ Len(debounceCalls) = 2 /\ debounceCalls[1] # debounceCalls[2]
    /\ Len(funcInvocations) = 1
    /\ funcInvocations[1].call = 2 /\ funcInvocations[1].args = debounceCalls[2]
    /\ debounceTimers = {}

C24_MissingMarkupSkipsInit ==
    /\ ~menuMarkup =>
          /\ ~overlayAppended
          /\ ~isMenuOpen /\ MenuShownClosed
          /\ menuFocusTimers = 0 /\ ~menuResizeTimer
    /\ galleryImages = <<>> =>
          /\ ~lightbox /\ ~swipeInstalled
          /\ currentImageIndex = 0 /\ ~lightboxActive /\ ~bodyNoScroll
          /\ shownImage = NoImage /\ lightboxFocusTimers = 0
    /\ navLinks = <<>> => ~spyWatcher /\ navActive = {}

\* C25: once a watcher has been built after the disconnect (it is the only way
\* elements are watched again), delivering the entries the disconnected watcher
\* still holds changes no element's 'is-visible' and not the new watch set.
C25_InFlightCallbackDiscarded ==
    [][(lastOp'.op = "inFlightCallback" /\ watched # {})
          => UNCHANGED <<visible, watched>>]_vars

\* C26: after every successful openLightbox, showNextImage or showPrevImage on
\* a gallery of n >= 1 images the descriptors before and after the resulting
\* index (cyclically) have been preloaded.
C26_AdjacentPreloaded ==
    [][LET n == Len(galleryImages)
           i == currentImageIndex'
       IN  (/\ lightbox
            /\ n >= 1
            /\ \/ lastOp'.op \in {"showNextImage", "showPrevImage"}
               \/ lastOp'.op = "openLightbox" /\ HasImage(lastOp'.n))
              => {(i - 1 + n) % n, (i + 1) % n} \subseteq preloaded']_vars

C28_AtMostOneWatcherConnected == ~staleConnected /\ staleWatched = {}

\* a resize re-init has replaced a watcher that was watching: the old one is
\* disconnected with entries still queued, the new one watches
C28_Witness ==
    /\ lastOp.op = "mainResizeTimer"
    /\ connected /\ watched # {} /\ inFlight # {}
    /\ ~staleConnected

\* C29: in either order of initGallery and the module-level 100 ms timer, a
\* gallery initialized with n >= 1 images has the touch handlers on its
\* lightbox once that timer has run.
C29_SwipeInstalledForEveryGallery ==
    (lightbox /\ Len(galleryImages) >= 1 /\ ~swipeTimer) => swipeInstalled

\* C30: the body has 'no-scroll' exactly when the lightbox is visible; open,
\* close, next and prev of the lightbox leave 'menu-open' as it is; open,
\* close and toggle of the menu leave 'no-scroll' as it is.
C30_ScrollLocksIndependent ==
    /\ [](bodyNoScroll = lightboxActive)
    /\ [][/\ lastOp'.op \in {"openLightbox", "closeLightbox",
                              "showNextImage", "showPrevImage"}
              => bodyMenuOpen' = bodyMenuOpen
          /\ lastOp'.op \in {"openMenu", "closeMenu", "burgerClick"}
              => bodyNoScroll' = bodyNoScroll]_vars

\* menu and lightbox were both open and closeLightbox has run: the menu's lock
\* is still on the body
C30_Witness ==
    /\ lastOp.op = "closeLightbox" /\ lastOp.changed
    /\ isMenuOpen /\ bodyMenuOpen
    /\ ~lightboxActive /\ ~bodyNoScroll

====
